---- MODULE Spec2Model ----
(***************************************************************************)
(* Peer discovery and handshake of GRTC (src/app.js): two sessions, one    *)
(* constructed with joinee === true (the Initiator) and one with           *)
(* joinee == false (the Joinee), meet through a polled signal store.       *)
(***************************************************************************)
EXTENDS Integers, Sequences, FiniteSets, TLC

(* ---------------------------------------------------------------- bounds *)
MaxInFlight == 2      \* getSignal requests in flight at once over all sessions
                      \* (a session with none in flight may always make one)
MaxFail == 1          \* store requests that fail over a run
MaxLen == 3           \* length of the list one get returns (poll step alone)
MaxMsgs == 2          \* messages put on the data channel towards a session,
                      \* the handshake messages of securityHandler aside

(* ------------------------------------------------------------- constants *)
Sessions == {"I", "J"}
Other(s) == IF s = "I" THEN "J" ELSE "I"

\* the constructor argument: true for the initiator, false for the joinee
joinee == [s \in Sessions |-> s = "I"]

NULL == "null-object"
\* the signal object the peer of a session produces (trickle: false => one)
LocalSignal(s) == IF s = "I" THEN "offer-I" ELSE "offer-J"
ThirdSignal == "offer-X"

\* JSON.stringify: the store and peerFound carry the serialized form
Stringify(sig) == IF sig = NULL THEN "null" ELSE <<"json", sig>>

\* btoa: what updateSignal puts into the request
Btoa(str) == <<"base64", str>>

\* the server keeps the decoded value and returns it in the list of a get
Atob(enc) == enc[2]

Blobs == {Stringify(LocalSignal(s)) : s \in Sessions} \cup {Stringify(ThirdSignal)}

NoInstance == [none |-> TRUE]
NewSignalInstance(sig) == [signalID |-> sig]

VARIABLES
    constructed,        \* the constructor (and init) has run
    peerSignal,         \* self.peerSignal
    signalInstance,     \* self.signalInstance
    otherPeers,         \* self.otherPeers
    activeTimers,       \* interval handles that are running
    listenSignalTimer,  \* self.listenSignalTimer (0 or the last handle)
    getQueue,           \* getSignal promises pending, each with the length
                        \* the store's list had when the request was made
    pub,                \* updateSignal promise of init
    securityOn,         \* securityHandler has registered its listeners
    keygenPending,      \* crypto.generateKeys() promises pending
    keys,               \* self.keys
    pkSent,             \* peer.send({publicKey}) calls made
    connected,          \* the peer has emitted 'connect'
    inbox,              \* messages on the data channel towards the session
    pkEvents,           \* 'publicKey' events emitted
    store,              \* the list the server keeps for the room
    failures,           \* store requests that have failed
    emitted,            \* 'peerFound' events emitted, in order
    signalled,          \* peer.signal(signal) calls made, in order
    everPolled,         \* a getSignal has been issued
    stopped,            \* the caller has stopped the session
    peerListener,       \* peerHandler has registered its 'peerFound' listener
    dataLog,            \* what dataHandler did with each message, in order
    sent                \* messages put on the data channel by send() calls
                        \* of the application and by a misbehaving remote

vars == <<constructed, peerSignal, signalInstance, otherPeers, activeTimers,
          listenSignalTimer, getQueue, pub, securityOn,
          keygenPending, keys, pkSent, connected, inbox,
          pkEvents, store, failures, emitted, signalled, everPolled,
          stopped, peerListener, dataLog, sent>>

SeqToSet(q) == {q[i] : i \in 1..Len(q)}
RemoveAt(q, i) == SubSeq(q, 1, i - 1) \o SubSeq(q, i + 1, Len(q))

(* ------------------------------------------------------ pure functions *)
\* (mutant) no Set is made: the fetched list is walked as it is
NewSet_list(resp) == resp

\* new Set(resp): the distinct elements of resp in first-occurrence order
RECURSIVE NewSet(_)
NewSet(resp) ==
    IF resp = <<>> THEN <<>>
    ELSE LET init == NewSet(SubSeq(resp, 1, Len(resp) - 1))
             last == resp[Len(resp)]
         IN IF last \in SeqToSet(init) THEN init ELSE Append(init, last)

\* (mutant) the difference is not taken: every fetched element is kept
setDifference_none(setA, setB) == setA

\* setDifference(setA, setB): setA without the elements of setB
setDifference(setA, setB) == SelectSeq(setA, LAMBDA e : e \notin setB)

\* (mutant) no guard: the own blob is treated like any other
NotOwn_any(signal, own) == TRUE

\* (mutant) the comparison inverted: === for !==
NotOwn_inverted(signal, own) == signal = Stringify(own)

\* the guard of the forEach body
NotOwn(signal, own) == signal # Stringify(own)

\* the signals one resolved getSignal emits as peerFound, in order
Found(resp, seen, own) ==
    SelectSeq(setDifference(NewSet(resp), seen), LAMBDA e : NotOwn(e, own))

\* (mutant) init starts listening whatever the role
StartsListeningAtInit_always(s) == TRUE

\* init: "if not initiator start listening for signals"
StartsListeningAtInit(s) == joinee[s] = FALSE

\* (mutant) the 'peerFound' listener is registered too late for init
ListensAtInit_never(s) == FALSE

\* peerHandler registers its 'peerFound' listener in the executor of its
\* promise, which init runs synchronously
ListensAtInit(s) == TRUE

\* (mutant) every peer is created as initiator
PeerInitiator_always(s) == TRUE

\* new Peer({initiator: self.joinee === true}): the initiator's peer makes
\* its offer unasked, the other peer answers the first signal it is given
PeerInitiator(s) == joinee[s] = TRUE

\* (mutant) the listener hands over the first signal only
PeerFoundSignal_first(calls, signal) ==
    IF calls = <<>> THEN <<signal>> ELSE calls

\* the 'peerFound' listener of peerHandler: self.peer.signal(signal)
PeerFoundSignal(calls, signal) == Append(calls, signal)

RECURSIVE SignalAll(_, _)
SignalAll(calls, found) ==
    IF found = <<>> THEN calls
    ELSE SignalAll(PeerFoundSignal(calls, Head(found)), Tail(found))

(* ----------------------------------------------------- the data channel *)
\* the values send() is given and JSON.parse returns: an object with its
\* field names and the value they carry, or a string
Object(fields, body) == [type |-> "object", fields |-> fields, body |-> body]
StringValue(body) == [type |-> "string", fields |-> {}, body |-> body]

\* the handshake message of securityHandler
KeyPair(s) == [publicKey |-> <<"pub", s>>, privateKey |-> <<"priv", s>>]
Payload(k) == Object({"publicKey"}, k.publicKey)

\* what an application hands to send(): an object, an object that has a
\* field named publicKey of its own, a bare string
AppPayloads ==
    {Object({"text"}, <<"app", "hello">>),
     Object({"publicKey"}, <<"app", "mine">>),
     StringValue(<<"app", "hello">>)}

\* JSON.stringify(data) as peer.send is given it, and its JSON.parse
StringifyData(data) == <<"json", data>>
Parses(text) == text[1] = "json"
JSONparse(text) == text[2]

\* bytes on the channel that are not JSON
MalformedText == <<"raw", StringValue(<<"app", "{hello">>)>>

\* what a call of dataHandler ends in: an event emitted or an exception
\* thrown out of the 'data' listener
Emitted(event, arg) == [event |-> event, arg |-> arg]
Thrown(error) == [event |-> error, arg |-> StringValue(<<"error", error>>)]

\* the in operator of line 166 throws a TypeError unless its right operand
\* is an object
InThrows(parsedData) == parsedData.type # "object"

\* dataHandler: a message with a publicKey field is a handshake message
IsHandshake(parsedData) == "publicKey" \in parsedData.fields

\* dataHandler after JSON.parse
Route(parsedData) ==
    IF InThrows(parsedData) THEN Thrown("TypeError")
    ELSE IF IsHandshake(parsedData)
         THEN Emitted("publicKey", StringValue(parsedData.body))
         ELSE Emitted("peerData", parsedData)

\* (mutant) text that does not parse is passed on as it is
dataHandler_lenient(data) ==
    IF Parses(data) THEN Route(JSONparse(data))
    ELSE Emitted("peerData", data[2])

\* dataHandler(data): JSON.parse(data.toString()) throws a SyntaxError on
\* text that is not JSON
dataHandler(data) ==
    IF Parses(data) THEN Route(JSONparse(data))
    ELSE Thrown("SyntaxError")

InFlight == Len(getQueue["I"]) + Len(getQueue["J"])

TypeOK ==
    /\ constructed \in [Sessions -> BOOLEAN]
    /\ peerSignal \in [Sessions -> {NULL} \cup {LocalSignal(s) : s \in Sessions}]
    /\ otherPeers \in [Sessions -> SUBSET Blobs]
    /\ activeTimers \in [Sessions -> SUBSET (1..3)]
    /\ listenSignalTimer \in [Sessions -> 0..3]
    /\ \A s \in Sessions : Len(getQueue[s]) <= MaxInFlight
    /\ InFlight <= MaxInFlight + 1
    /\ pub \in [Sessions -> {"none", "sent", "stored", "acked", "failed"}]
    /\ securityOn \in [Sessions -> BOOLEAN]
    /\ connected \in [Sessions -> BOOLEAN]
    /\ failures \in 0..MaxFail
    /\ SeqToSet(store) \subseteq Blobs
    /\ stopped \in [Sessions -> BOOLEAN]
    /\ peerListener \in [Sessions -> BOOLEAN]
    /\ sent \in [Sessions -> 0..MaxMsgs]
    /\ \A s \in Sessions : Len(dataLog[s]) <= MaxMsgs + 1

Init ==
    /\ constructed = [s \in Sessions |-> FALSE]
    /\ peerSignal = [s \in Sessions |-> NULL]
    /\ signalInstance = [s \in Sessions |-> NoInstance]
    /\ otherPeers = [s \in Sessions |-> {}]
    /\ activeTimers = [s \in Sessions |-> {}]
    /\ listenSignalTimer = [s \in Sessions |-> 0]
    /\ getQueue = [s \in Sessions |-> <<>>]
    /\ pub = [s \in Sessions |-> "none"]
    /\ securityOn = [s \in Sessions |-> FALSE]
    /\ keygenPending = [s \in Sessions |-> 0]
    /\ keys = [s \in Sessions |-> <<>>]
    /\ pkSent = [s \in Sessions |-> 0]
    /\ connected = [s \in Sessions |-> FALSE]
    /\ inbox = [s \in Sessions |-> <<>>]
    /\ pkEvents = [s \in Sessions |-> 0]
    /\ store = <<>>
    /\ failures = 0
    /\ emitted = [s \in Sessions |-> <<>>]
    /\ signalled = [s \in Sessions |-> <<>>]
    /\ everPolled = [s \in Sessions |-> FALSE]
    /\ stopped = [s \in Sessions |-> FALSE]
    /\ peerListener = [s \in Sessions |-> FALSE]
    /\ dataLog = [s \in Sessions |-> <<>>]
    /\ sent = [s \in Sessions |-> 0]

(* ------------------------------------------------------------ discovery *)
\* listenSignalRoutine, the request half: signalInstance.getSignal()
listenSignalRoutine(s) ==
    /\ getQueue[s] = <<>> \/ InFlight < MaxInFlight
    /\ getQueue' = [getQueue EXCEPT ![s] = Append(@, Len(store))]
    /\ everPolled' = [everPolled EXCEPT ![s] = TRUE]

\* listenSignal: one poll at once, then a new interval whose handle
\* overwrites self.listenSignalTimer
listenSignal(s) ==
    /\ listenSignalRoutine(s)
    /\ LET handle == listenSignalTimer[s] + 1
       IN /\ activeTimers' = [activeTimers EXCEPT ![s] = @ \cup {handle}]
          /\ listenSignalTimer' = [listenSignalTimer EXCEPT ![s] = handle]

\* the setInterval callback of listenSignal (its listenSignalCount++ is
\* left out: the counter is written here and read nowhere)
Tick(s) ==
    /\ activeTimers[s] # {}
    /\ listenSignalRoutine(s)
    /\ UNCHANGED <<constructed, peerSignal, signalInstance, otherPeers,
                   activeTimers, listenSignalTimer, pub, securityOn,
                   keygenPending, keys, pkSent, connected, inbox,
                   pkEvents, store, failures, emitted, signalled,
                   stopped, peerListener, dataLog, sent>>

\* what the server may answer to a get made when its list had n entries:
\* the list as it is at some moment between the request and the response
Responses(n) == {SubSeq(store, 1, k) : k \in n..Len(store)}

\* listenSignalRoutine, the then-callback: emit and remember what is new
GetResolved(s, i) ==
    /\ i \in 1..Len(getQueue[s])
    /\ getQueue' = [getQueue EXCEPT ![s] = RemoveAt(@, i)]
    /\ \E resp \in Responses(getQueue[s][i]) :
       LET found == Found(resp, otherPeers[s], peerSignal[s])
       IN /\ emitted' = [emitted EXCEPT ![s] = @ \o found]
          /\ signalled' = [signalled EXCEPT ![s] =
                               IF peerListener[s] THEN SignalAll(@, found) ELSE @]
          /\ keygenPending' = [keygenPending EXCEPT ![s] =
                                  IF securityOn[s] THEN @ + Len(found) ELSE @]
          /\ otherPeers' = [otherPeers EXCEPT ![s] = @ \cup SeqToSet(found)]
    /\ UNCHANGED <<constructed, peerSignal, signalInstance, activeTimers,
                   listenSignalTimer, pub, securityOn,
                   keys, pkSent, connected, inbox, pkEvents,
                   store, failures, everPolled,
                   stopped, peerListener, dataLog, sent>>

\* (mutant) a rejected get stops the interval
GetRejected_stop(s, i) ==
    /\ i \in 1..Len(getQueue[s])
    /\ failures < MaxFail
    /\ failures' = failures + 1
    /\ getQueue' = [getQueue EXCEPT ![s] = RemoveAt(@, i)]
    /\ activeTimers' = [activeTimers EXCEPT ![s] = {}]
    /\ UNCHANGED <<constructed, peerSignal, signalInstance, otherPeers,
                   listenSignalTimer, pub,
                   securityOn, keygenPending, keys, pkSent, connected, inbox, pkEvents, store, emitted,
                   signalled, everPolled,
                   stopped, peerListener, dataLog, sent>>

\* the get fails ($.get(...).fail => reject(e)) and the getSignal promise
\* is rejected; listenSignalRoutine has no handler for that
GetRejected(s, i) ==
    /\ i \in 1..Len(getQueue[s])
    /\ failures < MaxFail
    /\ failures' = failures + 1
    /\ getQueue' = [getQueue EXCEPT ![s] = RemoveAt(@, i)]
    /\ UNCHANGED <<constructed, peerSignal, signalInstance, otherPeers,
                   activeTimers, listenSignalTimer, pub,
                   securityOn, keygenPending, keys, pkSent, connected, inbox, pkEvents, store, emitted,
                   signalled, everPolled,
                   stopped, peerListener, dataLog, sent>>

(* ------------------------------------------------- session and handshake *)
\* new GRTC(grtcID, url, joinee, reload): the constructor and the
\* synchronous part of init (listenSignal for the joinee, then peerHandler)
Construct(s) ==
    /\ ~constructed[s]
    /\ constructed' = [constructed EXCEPT ![s] = TRUE]
    /\ peerListener' = [peerListener EXCEPT ![s] = ListensAtInit(s)]
    /\ IF StartsListeningAtInit(s)
       THEN /\ signalInstance' = [signalInstance EXCEPT
                                     ![s] = NewSignalInstance(peerSignal[s])]
            /\ listenSignal(s)
       ELSE UNCHANGED <<signalInstance, getQueue, everPolled, activeTimers,
                        listenSignalTimer>>
    /\ UNCHANGED <<peerSignal, otherPeers, pub, securityOn,
                   keygenPending, keys, pkSent, connected, inbox,
                   pkEvents, store, failures, emitted, signalled,
                   stopped, dataLog, sent>>

\* peer.on('signal'): the local signal is kept, the promise of peerHandler
\* resolves and init publishes it: new Signal(...).updateSignal()
PeerSignalReady(s) ==
    /\ constructed[s]
    /\ peerSignal[s] = NULL
    /\ PeerInitiator(s) \/ signalled[s] # <<>>
    /\ peerSignal' = [peerSignal EXCEPT ![s] = LocalSignal(s)]
    /\ signalInstance' = [signalInstance EXCEPT
                             ![s] = NewSignalInstance(LocalSignal(s))]
    /\ pub' = [pub EXCEPT ![s] = "sent"]
    /\ UNCHANGED <<constructed, otherPeers, activeTimers, listenSignalTimer,
                   getQueue, securityOn, keygenPending,
                   keys, pkSent, connected, inbox, pkEvents,
                   store, failures, emitted, signalled, everPolled,
                   stopped, peerListener, dataLog, sent>>

\* the server stores the value of a set request
ServerSet(s) ==
    /\ pub[s] = "sent"
    /\ store' = Append(store, Atob(Btoa(Stringify(signalInstance[s].signalID))))
    /\ pub' = [pub EXCEPT ![s] = "stored"]
    /\ UNCHANGED <<constructed, peerSignal, signalInstance, otherPeers,
                   activeTimers, listenSignalTimer, getQueue, securityOn, keygenPending, keys, pkSent,
                   connected, inbox, pkEvents, failures, emitted,
                   signalled, everPolled,
                   stopped, peerListener, dataLog, sent>>

\* init, the then-callback of updateSignal: listenSignal(); securityHandler()
UpdateAck(s) ==
    /\ pub[s] = "stored"
    /\ pub' = [pub EXCEPT ![s] = "acked"]
    /\ listenSignal(s)
    /\ securityOn' = [securityOn EXCEPT ![s] = TRUE]
    /\ UNCHANGED <<constructed, peerSignal, signalInstance, otherPeers,
                   keygenPending, keys, pkSent,
                   connected, inbox, pkEvents, store, failures,
                   emitted, signalled,
                   stopped, peerListener, dataLog, sent>>

\* the set fails ($.get(...).fail => reject(e)) and the updateSignal promise
\* is rejected; init has no handler for that
UpdateReject(s) ==
    /\ pub[s] = "sent"
    /\ failures < MaxFail
    /\ failures' = failures + 1
    /\ pub' = [pub EXCEPT ![s] = "failed"]
    /\ UNCHANGED <<constructed, peerSignal, signalInstance, otherPeers,
                   activeTimers, listenSignalTimer, getQueue, securityOn, keygenPending, keys, pkSent,
                   connected, inbox, pkEvents, store,
                   emitted, signalled, everPolled,
                   stopped, peerListener, dataLog, sent>>

\* securityHandler, the then-callback of crypto.generateKeys(): the keys
\* are kept and the public key is sent; a send on a peer that is not
\* connected does not reach the other side
KeysGenerated(s) ==
    /\ keygenPending[s] > 0
    /\ keygenPending' = [keygenPending EXCEPT ![s] = @ - 1]
    /\ keys' = [keys EXCEPT ![s] = KeyPair(s)]
    /\ pkSent' = [pkSent EXCEPT ![s] = @ + 1]
    /\ inbox' = IF connected[s]
                THEN [inbox EXCEPT ![Other(s)] =
                          Append(@, StringifyData(Payload(KeyPair(s))))]
                ELSE inbox
    /\ UNCHANGED <<constructed, peerSignal, signalInstance, otherPeers,
                   activeTimers, listenSignalTimer, getQueue, pub, securityOn, connected, pkEvents, store,
                   failures, emitted, signalled, everPolled,
                   stopped, peerListener, dataLog, sent>>

\* the two peers hold each other's signal: the transport can connect
CanConnect(s) ==
    /\ Stringify(LocalSignal(Other(s))) \in SeqToSet(signalled[s])
    /\ Stringify(LocalSignal(s)) \in SeqToSet(signalled[Other(s)])

\* peer.on('connect'): emit('peerConnected')
Connect(s) ==
    /\ ~connected[s]
    /\ CanConnect(s)
    /\ connected' = [connected EXCEPT ![s] = TRUE]
    /\ UNCHANGED <<constructed, peerSignal, signalInstance, otherPeers,
                   activeTimers, listenSignalTimer, getQueue, pub, securityOn, keygenPending, keys, pkSent,
                   inbox, pkEvents, store, failures, emitted,
                   signalled, everPolled,
                   stopped, peerListener, dataLog, sent>>

\* peer.on('data'): dataHandler(data).  An exception thrown out of the
\* listener changes nothing in the session.
Receive(s) ==
    /\ connected[s]
    /\ inbox[s] # <<>>
    /\ inbox' = [inbox EXCEPT ![s] = Tail(@)]
    /\ LET outcome == dataHandler(Head(inbox[s]))
       IN /\ dataLog' = [dataLog EXCEPT ![s] = Append(@, outcome)]
          /\ pkEvents' = [pkEvents EXCEPT ![s] =
                             IF outcome.event = "publicKey" THEN @ + 1 ELSE @]
    /\ UNCHANGED <<constructed, peerSignal, signalInstance, otherPeers,
                   activeTimers, listenSignalTimer, getQueue, pub, securityOn, keygenPending, keys, pkSent,
                   connected, store, failures, emitted,
                   signalled, everPolled,
                   stopped, peerListener, sent>>

\* another client of the same room publishes a signal of its own
ThirdPartyPublish ==
    /\ Stringify(ThirdSignal) \notin SeqToSet(store)
    /\ store' = Append(store, Atob(Btoa(Stringify(ThirdSignal))))
    /\ UNCHANGED <<constructed, peerSignal, signalInstance, otherPeers,
                   activeTimers, listenSignalTimer, getQueue, pub, securityOn, keygenPending, keys, pkSent,
                   connected, inbox, pkEvents, failures, emitted,
                   signalled, everPolled,
                   stopped, peerListener, dataLog, sent>>

Next ==
    \/ \E s \in Sessions : Construct(s)
    \/ \E s \in Sessions : PeerSignalReady(s)
    \/ \E s \in Sessions : ServerSet(s)
    \/ \E s \in Sessions : UpdateAck(s)
    \/ \E s \in Sessions : UpdateReject(s)
    \/ \E s \in Sessions : Tick(s)
    \/ \E s \in Sessions : \E i \in 1..MaxInFlight : GetResolved(s, i)
    \/ \E s \in Sessions : \E i \in 1..MaxInFlight : GetRejected(s, i)
    \/ \E s \in Sessions : KeysGenerated(s)
    \/ \E s \in Sessions : Connect(s)
    \/ \E s \in Sessions : Receive(s)
    \/ ThirdPartyPublish

Spec == Init /\ [][Next]_vars

\* timers fire, requests are answered, promises settle, events are delivered
Fairness ==
    \A s \in Sessions :
        /\ WF_vars(Construct(s))
        /\ WF_vars(PeerSignalReady(s))
        /\ WF_vars(ServerSet(s))
        /\ WF_vars(UpdateAck(s))
        /\ WF_vars(Tick(s))
        /\ WF_vars(\E i \in 1..MaxInFlight : GetResolved(s, i))
        /\ WF_vars(KeysGenerated(s))
        /\ WF_vars(Connect(s))
        /\ WF_vars(Receive(s))

FairSpec == Spec /\ Fairness

\* the part of it discovery rests on: the interval keeps firing and every
\* get is answered.  These are WF_vars(Tick(s)) and
\* WF_vars(\E i : GetResolved(s, i)) with ENABLED written out.
TickEnabled(s) ==
    /\ activeTimers[s] # {}
    /\ getQueue[s] = <<>> \/ InFlight < MaxInFlight

GetEnabled(s) == getQueue[s] # <<>>

\* the written-out conditions are the ENABLED of the two actions
EnabledOK ==
    \A s \in Sessions :
        /\ TickEnabled(s) <=> ENABLED Tick(s)
        /\ GetEnabled(s) <=> ENABLED (\E i \in 1..MaxInFlight : GetResolved(s, i))

PollFairness ==
    \A s \in Sessions :
        /\ []<>(~TickEnabled(s)) \/ []<><<Tick(s)>>_vars
        /\ []<>(~GetEnabled(s))
               \/ []<><<\E i \in 1..MaxInFlight : GetResolved(s, i)>>_vars

PollSpec == Spec /\ PollFairness

(* ------------------------------------------------------------- stopping *)
\* GRTC has no stop() or close() and the source holds no clearInterval.
\* What a caller can do to stop a session is clear the one handle the
\* session keeps: clearInterval(grtc.listenSignalTimer).
Stop(s) ==
    /\ constructed[s]
    /\ ~stopped[s]
    /\ stopped' = [stopped EXCEPT ![s] = TRUE]
    /\ activeTimers' = [activeTimers EXCEPT ![s] = @ \ {listenSignalTimer[s]}]
    /\ UNCHANGED <<constructed, peerSignal, signalInstance, otherPeers,
                   listenSignalTimer, getQueue, pub, securityOn,
                   keygenPending, keys, pkSent, connected, inbox, pkEvents,
                   store, failures, emitted, signalled, everPolled,
                   peerListener, dataLog, sent>>

StopNext ==
    \/ Next
    \/ \E s \in Sessions : Stop(s)

\* the runs of Spec, with callers that may stop a session at any moment
StopSpec == Init /\ [][StopNext]_vars

(* ------------------------------------------ the data channel in use *)
\* self.send(data): self.peer.send(JSON.stringify(data)); as in
\* securityHandler, a send on a peer that is not connected reaches nobody
Send(s, data) ==
    /\ constructed[s]
    /\ sent[s] < MaxMsgs
    /\ sent' = [sent EXCEPT ![s] = @ + 1]
    /\ inbox' = IF connected[s]
                THEN [inbox EXCEPT ![Other(s)] = Append(@, StringifyData(data))]
                ELSE inbox
    /\ UNCHANGED <<constructed, peerSignal, signalInstance, otherPeers,
                   activeTimers, listenSignalTimer, getQueue, pub, securityOn,
                   keygenPending, keys, pkSent, connected, pkEvents, store,
                   failures, emitted, signalled, everPolled,
                   stopped, peerListener, dataLog>>

\* the remote end of the channel of s writes bytes that are not JSON
Malformed(s) ==
    /\ connected[s]
    /\ sent[Other(s)] < MaxMsgs
    /\ sent' = [sent EXCEPT ![Other(s)] = @ + 1]
    /\ inbox' = [inbox EXCEPT ![s] = Append(@, MalformedText)]
    /\ UNCHANGED <<constructed, peerSignal, signalInstance, otherPeers,
                   activeTimers, listenSignalTimer, getQueue, pub, securityOn,
                   keygenPending, keys, pkSent, connected, pkEvents, store,
                   failures, emitted, signalled, everPolled,
                   stopped, peerListener, dataLog>>

\* A two-party run after discovery: both sessions have published, found
\* each other's signal and are connected, no poll is in flight, and the
\* initiator's securityHandler has a generateKeys pending for the
\* peerFound it saw.
DataInit ==
    /\ constructed = [s \in Sessions |-> TRUE]
    /\ peerSignal = [s \in Sessions |-> LocalSignal(s)]
    /\ signalInstance = [s \in Sessions |-> NewSignalInstance(LocalSignal(s))]
    /\ otherPeers = [s \in Sessions |-> {Stringify(LocalSignal(Other(s)))}]
    /\ activeTimers = [s \in Sessions |->
                          IF StartsListeningAtInit(s) THEN {1, 2} ELSE {1}]
    /\ listenSignalTimer = [s \in Sessions |->
                               IF StartsListeningAtInit(s) THEN 2 ELSE 1]
    /\ getQueue = [s \in Sessions |-> <<>>]
    /\ pub = [s \in Sessions |-> "acked"]
    /\ securityOn = [s \in Sessions |-> TRUE]
    /\ keygenPending = [s \in Sessions |->
                           IF StartsListeningAtInit(s) THEN 0 ELSE 1]
    /\ keys = [s \in Sessions |-> <<>>]
    /\ pkSent = [s \in Sessions |-> 0]
    /\ connected = [s \in Sessions |-> TRUE]
    /\ inbox = [s \in Sessions |-> <<>>]
    /\ pkEvents = [s \in Sessions |-> 0]
    /\ store = <<Stringify(LocalSignal("I")), Stringify(LocalSignal("J"))>>
    /\ failures = 0
    /\ emitted = [s \in Sessions |-> <<Stringify(LocalSignal(Other(s)))>>]
    /\ signalled = [s \in Sessions |-> <<Stringify(LocalSignal(Other(s)))>>]
    /\ everPolled = [s \in Sessions |-> TRUE]
    /\ stopped = [s \in Sessions |-> FALSE]
    /\ peerListener = [s \in Sessions |-> TRUE]
    /\ dataLog = [s \in Sessions |-> <<>>]
    /\ sent = [s \in Sessions |-> 0]

\* the traffic on the channel, with the polling left aside
DataNext ==
    \/ \E s \in Sessions : KeysGenerated(s)
    \/ \E s \in Sessions : \E data \in AppPayloads : Send(s, data)
    \/ \E s \in Sessions : Malformed(s)
    \/ \E s \in Sessions : Receive(s)

DataSpec == DataInit /\ [][DataNext]_vars

(* ------------------------------------------------- one poll step alone *)
\* the lists a get can return: up to MaxLen blobs, repetitions included
Lists(n) == UNION {[1..k -> Blobs] : k \in 0..n}
Distinct(q) == \A i, j \in 1..Len(q) : q[i] = q[j] => i = j

\* A session in the middle of discovery: it has emitted the blobs of seen
\* (its otherPeers) before, its own signal is own (null for a joinee that
\* has not published yet), and one getSignal is in flight that the server
\* answers with the list R.
PollStepInit ==
    \E p \in Sessions, R \in Lists(MaxLen), seen \in Lists(Cardinality(Blobs)) :
    \E own \in {NULL, LocalSignal(p)} :
        /\ Distinct(seen)
        /\ Stringify(LocalSignal(p)) \notin SeqToSet(seen)
        /\ own = NULL => StartsListeningAtInit(p)
        /\ constructed = [s \in Sessions |-> s = p]
        /\ peerSignal = [s \in Sessions |-> IF s = p THEN own ELSE NULL]
        /\ signalInstance = [s \in Sessions |->
                                IF s = p THEN NewSignalInstance(own) ELSE NoInstance]
        /\ otherPeers = [s \in Sessions |-> IF s = p THEN SeqToSet(seen) ELSE {}]
        /\ activeTimers = [s \in Sessions |->
                              IF s # p THEN {}
                              ELSE IF own = NULL \/ ~StartsListeningAtInit(p)
                                   THEN {1} ELSE {1, 2}]
        /\ listenSignalTimer = [s \in Sessions |->
                                   IF s # p THEN 0
                                   ELSE IF own = NULL \/ ~StartsListeningAtInit(p)
                                        THEN 1 ELSE 2]
        /\ getQueue = [s \in Sessions |-> IF s = p THEN <<Len(R)>> ELSE <<>>]
        /\ pub = [s \in Sessions |-> IF s = p /\ own # NULL THEN "acked" ELSE "none"]
        /\ securityOn = [s \in Sessions |-> s = p /\ own # NULL]
        /\ keygenPending = [s \in Sessions |-> 0]
        /\ keys = [s \in Sessions |-> <<>>]
        /\ pkSent = [s \in Sessions |-> 0]
        /\ connected = [s \in Sessions |-> FALSE]
        /\ inbox = [s \in Sessions |-> <<>>]
        /\ pkEvents = [s \in Sessions |-> 0]
        /\ store = R
        /\ failures = 0
        /\ emitted = [s \in Sessions |-> IF s = p THEN seen ELSE <<>>]
        /\ signalled = [s \in Sessions |-> IF s = p THEN seen ELSE <<>>]
        /\ everPolled = [s \in Sessions |-> s = p]
        /\ stopped = [s \in Sessions |-> FALSE]
        /\ peerListener = [s \in Sessions |-> s = p]
        /\ dataLog = [s \in Sessions |-> <<>>]
        /\ sent = [s \in Sessions |-> 0]

PollStepNext == \E s \in Sessions : \E i \in 1..MaxInFlight : GetResolved(s, i)

PollStepSpec == PollStepInit /\ [][PollStepNext]_vars

(* ================================================================ claims *)
OwnBlob(s) == Stringify(LocalSignal(s))
ThirdBlob == Stringify(ThirdSignal)
Discovering(s) == activeTimers[s] # {}
HasFound(s, b) == b \in SeqToSet(emitted[s])
Times(q, b) == Cardinality({i \in 1..Len(q) : q[i] = b})
\* what the session has asked the store to publish
Published(s) == Stringify(signalInstance[s].signalID)

\* C1: role ordering.  The session constructed with joinee === true (the
\* initiator) has issued no getSignal unless its updateSignal has been
\* acknowledged; the session constructed with joinee == false has issued a
\* getSignal before it issues its updateSignal.
C1_RoleOrdering ==
    \A s \in Sessions :
        /\ (joinee[s] = TRUE /\ everPolled[s]) => pub[s] = "acked"
        /\ (joinee[s] = FALSE /\ pub[s] # "none") => everPolled[s]

C1_Witness ==
    /\ everPolled["I"] /\ pub["I"] = "acked"
    /\ everPolled["J"] /\ pub["J"] = "sent"

\* C2: within one session peerFound is emitted at most once per signal
\* blob, whatever the store returns and however ticks and responses
\* interleave.
C2_EmitOnce ==
    \A s \in Sessions : \A b \in Blobs : Times(emitted[s], b) <= 1

\* the joinee found offer-I, published, and a later response that held
\* offer-I again brought the third blob, with two more polls in flight
C2_Witness ==
    /\ store = <<OwnBlob("I"), OwnBlob("J"), ThirdBlob>>
    /\ emitted["J"] = <<OwnBlob("I"), ThirdBlob>>
    /\ Len(getQueue["J"]) = 2

\* C3: no self-discovery.  otherPeers never holds the blob the session has
\* published and no peerFound carries it, also for the joinee, whose polling
\* starts while peerSignal is null.
C3_NoSelfDiscovery ==
    \A s \in Sessions :
        pub[s] # "none" =>
            /\ Published(s) \notin otherPeers[s]
            /\ ~HasFound(s, Published(s))

\* the joinee has processed a response that held its own blob: the third
\* blob it found was stored after it
C3_Witness ==
    /\ store = <<OwnBlob("I"), OwnBlob("J"), ThirdBlob>>
    /\ ThirdBlob \in otherPeers["J"]
    /\ pub["J"] = "acked"

\* C4: at most one poll timer is active in a session, also after discovery
\* was started at session start and again after the publish.
C4_OneTimer ==
    \A s \in Sessions : Cardinality(activeTimers[s]) <= 1

\* C5 (as claimed): only the first discovered signal is handed to the
\* transport; a later discovery of a different blob makes no peer.signal call.
C5_OnlyFirstAccepted ==
    \A s \in Sessions : Len(signalled[s]) <= 1

\* C5 (amended): every discovered signal is handed to the transport: the
\* peer.signal calls of a session are its peerFound events, in order, also
\* for a later discovery of a different blob.
C5_EveryFoundSignalled ==
    \A s \in Sessions : signalled[s] = emitted[s]

C5_Witness ==
    \E s \in Sessions : Len(emitted[s]) = 2 /\ ThirdBlob \in SeqToSet(signalled[s])

\* C6: in a two-party run with a store that never fails, each session
\* eventually sends its {publicKey} message and each eventually receives
\* the other's.  (A run leaves the claim's case when a third blob is
\* published or a store request fails.)
C6_KeyExchange ==
    <>(\/ ThirdBlob \in SeqToSet(store)
       \/ failures > 0
       \/ \A s \in Sessions : pkSent[s] > 0 /\ pkEvents[s] > 0)

\* C7: the handshake starts on transport connect: a step that starts
\* generating keys or sends {publicKey} is taken with the peer connected.
C7_HandshakeAfterConnect ==
    [][\A s \in Sessions :
          (keygenPending'[s] > keygenPending[s] \/ pkSent'[s] > pkSent[s])
              => connected[s]]_vars

\* C8: no missed signal.  Once a session has started discovery and the
\* counterpart's blob is in the store (nothing removes it), the session
\* eventually emits peerFound for that blob: as long as the interval fires
\* and gets are answered, with at most MaxFail of them failing.
C8_NoMissedSignal ==
    \A s \in Sessions :
        (Discovering(s) /\ OwnBlob(Other(s)) \in SeqToSet(store))
            ~> HasFound(s, OwnBlob(Other(s)))

\* both blobs were published and each side found the other's
C8_Witness ==
    \A s \in Sessions :
        /\ Discovering(s)
        /\ OwnBlob(Other(s)) \in SeqToSet(store)
        /\ HasFound(s, OwnBlob(Other(s)))

\* C9: a failed poll does not stop discovery.  The step that rejects a
\* getSignal of a session (a failure that takes a request off its queue)
\* leaves its timers running, its otherPeers and its publish state as they
\* were, and emits nothing.
PollRejected(s) ==
    failures' > failures /\ Len(getQueue'[s]) < Len(getQueue[s])

C9_FailedPollAbsorbed ==
    [][\A s \in Sessions :
          PollRejected(s) =>
              /\ activeTimers'[s] = activeTimers[s]
              /\ activeTimers'[s] # {}
              /\ otherPeers'[s] = otherPeers[s]
              /\ emitted'[s] = emitted[s]
              /\ signalled'[s] = signalled[s]
              /\ pub'[s] = pub[s]]_vars

\* the only request that has failed is a poll of the joinee, which still has
\* its timer running and a poll in flight
C9_Witness ==
    /\ ~constructed["I"]
    /\ failures > 0
    /\ activeTimers["J"] # {}
    /\ getQueue["J"] # <<>>

\* C10: a failed publish is terminal: once updateSignal has failed the
\* session issues no further poll, emits no peerFound and starts no
\* handshake.
C10_FailedPublishTerminal ==
    [][\A s \in Sessions :
          pub[s] = "failed" =>
              /\ Len(getQueue'[s]) <= Len(getQueue[s])
              /\ emitted'[s] = emitted[s]
              /\ keygenPending'[s] <= keygenPending[s]
              /\ pkSent'[s] = pkSent[s]]_vars

\* C11: stopping a session cancels discovery: once the caller has stopped
\* the session no further getSignal is issued by it and a response that
\* arrives after the stop is discarded: it emits no peerFound and leaves
\* otherPeers as it was.
C11_StopCancelsDiscovery ==
    [][\A s \in Sessions :
          stopped[s] =>
              /\ Len(getQueue'[s]) <= Len(getQueue[s])
              /\ emitted'[s] = emitted[s]
              /\ otherPeers'[s] = otherPeers[s]]_vars

\* C12: one poll step computes the asymmetric difference.  For the fetched
\* list R, the seen set S and the own blob o of the session, the peerFound
\* events of the step carry exactly the elements of R that are not in S and
\* are not o, each once, and otherPeers afterwards is S with those added.
C12_PollStepDifference ==
    [][\A s \in Sessions :
          getQueue'[s] # getQueue[s] =>
              LET R == store
                  S == otherPeers[s]
                  o == Stringify(peerSignal[s])
                  new == {b \in SeqToSet(R) : b \notin S /\ b # o}
                  events == SubSeq(emitted'[s], Len(emitted[s]) + 1, Len(emitted'[s]))
              IN /\ SubSeq(emitted'[s], 1, Len(emitted[s])) = emitted[s]
                 /\ SeqToSet(events) = new
                 /\ Len(events) = Cardinality(new)
                 /\ otherPeers'[s] = S \cup new]_vars

\* R = [A, B] with o = A and S empty: exactly peerFound(B)
C12_Witness ==
    /\ store = <<OwnBlob("J"), OwnBlob("I")>>
    /\ peerSignal["J"] = LocalSignal("J")
    /\ getQueue["J"] = <<>>
    /\ emitted["J"] = <<OwnBlob("I")>>
    /\ otherPeers["J"] = {OwnBlob("I")}

\* C13: in a two-party run (no third blob in the store), once each session
\* has discovered the other, otherPeers of each session is exactly the
\* counterpart's blob, whatever polls follow.
C13_ExactlyCounterpart ==
    (/\ ThirdBlob \notin SeqToSet(store)
     /\ \A s \in Sessions : HasFound(s, OwnBlob(Other(s))))
        => \A s \in Sessions : otherPeers[s] = {OwnBlob(Other(s))}

\* both have discovered each other and published, the peers are connected
\* and the initiator has two further polls in flight
C13_Witness ==
    /\ store = <<OwnBlob("I"), OwnBlob("J")>>
    /\ \A s \in Sessions :
           /\ HasFound(s, OwnBlob(Other(s)))
           /\ pub[s] = "acked"
           /\ connected[s]
    /\ Len(getQueue["I"]) = 2

\* the step hands a message to dataHandler of s
Handled(s) == dataLog'[s] # dataLog[s]
Outcome(s) == dataLog'[s][Len(dataLog'[s])]

\* C14: a message that fails to parse does not fail the session.  The step
\* that handles it emits neither publicKey nor peerData and leaves
\* otherPeers, keys, the timers and the connection as they were; and an
\* object message is routed to its event whatever was handled before it.
C14_MalformedAbsorbed ==
    [][\A s \in Sessions :
          Handled(s) =>
              LET data == Head(inbox[s])
              IN IF ~Parses(data)
                 THEN /\ Outcome(s).event \notin {"publicKey", "peerData"}
                      /\ pkEvents'[s] = pkEvents[s]
                      /\ otherPeers'[s] = otherPeers[s]
                      /\ keys'[s] = keys[s]
                      /\ activeTimers'[s] = activeTimers[s]
                      /\ connected'[s]
                 ELSE JSONparse(data).type = "object" =>
                          Outcome(s).event \in {"publicKey", "peerData"}]_vars

\* the joinee was sent malformed bytes and then the initiator's handshake
\* message: the first threw, the second was routed
C14_Witness ==
    /\ Len(dataLog["J"]) = 2
    /\ dataLog["J"][1].event = "SyntaxError"
    /\ dataLog["J"][2].event = "publicKey"
    /\ pkEvents["J"] = 1

\* C15: message multiplexing.  Every handled message that parses causes
\* exactly one event: publicKey if it carries a publicKey field, and for
\* every other message, whatever the application passed to send(),
\* peerData carrying that payload.
C15_OneEventPerMessage ==
    [][\A s \in Sessions :
          (Handled(s) /\ Parses(Head(inbox[s]))) =>
              LET parsedData == JSONparse(Head(inbox[s]))
              IN IF "publicKey" \in parsedData.fields
                 THEN /\ Outcome(s).event = "publicKey"
                      /\ pkEvents'[s] = pkEvents[s] + 1
                 ELSE /\ Outcome(s) = Emitted("peerData", parsedData)
                      /\ pkEvents'[s] = pkEvents[s]]_vars

\* C16: the key pair is generated at most once per session: over a run,
\* also one in which more than one remote blob is discovered, a session
\* invokes generateKeys at most once (the invocations are the promises
\* pending and those resolved, each of which sent {publicKey}) and sends
\* at most one {publicKey} message.
C16_KeysGeneratedOnce ==
    \A s \in Sessions : keygenPending[s] + pkSent[s] <= 1

\* C17 (as claimed): the joinee publishes only after accepting the
\* initiator's offer: in every run, when the joinee has issued its
\* updateSignal it has emitted peerFound for the initiator's blob and handed
\* it to the transport, and the initiator's set has reached the store.
C17_JoineeAfterInitiator ==
    pub["J"] # "none" =>
        /\ HasFound("J", OwnBlob("I"))
        /\ OwnBlob("I") \in SeqToSet(signalled["J"])
        /\ pub["I"] \in {"stored", "acked"}

\* C17 (amended): the joinee publishes only after accepting a discovered
\* signal: when it has issued its updateSignal it has emitted peerFound and
\* handed the blob to the transport; unless the first blob it discovered
\* was a third publisher's, that blob is the initiator's and the
\* initiator's set has reached the store (so before the joinee's is made).
C17_JoineeAfterAccept ==
    pub["J"] # "none" =>
        /\ emitted["J"] # <<>>
        /\ signalled["J"] # <<>>
        /\ Head(signalled["J"]) = Head(emitted["J"])
        /\ Head(emitted["J"]) # ThirdBlob =>
               /\ Head(emitted["J"]) = OwnBlob("I")
               /\ pub["I"] \in {"stored", "acked"}

\* the joinee's blob is in the store, behind the initiator's that it
\* had discovered and handed to its peer
C17_Witness ==
    /\ pub["J"] = "stored"
    /\ store = <<OwnBlob("I"), OwnBlob("J")>>
    /\ signalled["J"] = <<OwnBlob("I")>>

\* C18: every discovered signal reaches the transport.  While a getSignal
\* of a session is pending its 'peerFound' listener is registered (also
\* for the first get of the joinee, issued before the peer exists), and
\* each blob a session has emitted as peerFound has been given to
\* peer.signal exactly once, no other blob at all.
C18_NoSignalLost ==
    \A s \in Sessions :
        /\ getQueue[s] # <<>> => peerListener[s]
        /\ \A b \in Blobs :
               Times(signalled[s], b) = IF HasFound(s, b) THEN 1 ELSE 0

\* the response to the joinee's first get, issued by init before
\* peerHandler ran, brought the initiator's offer and the peer was given it
C18_Witness ==
    /\ peerSignal["J"] = NULL
    /\ listenSignalTimer["J"] = 1
    /\ emitted["J"] = <<OwnBlob("I")>>
    /\ signalled["J"] = <<OwnBlob("I")>>

====
